---- MODULE Spec2Model ----
(***************************************************************************)
(* mdmake: a state-machine model of src/src/main.rs.                       *)
(*                                                                         *)
(* Three specifications share the definitions below:                       *)
(*   SpecCompile  main -> compile_all (one-shot full compile)              *)
(*   SpecWatch    main -> watch_mode (full compile, priming, polling loop) *)
(*   SpecLinks    replace_md_link_extensions_with_html as a pure function  *)
(*                                                                         *)
(* The file system is part of the state: the input tree (path -> mtime),   *)
(* the output tree (path -> content) and the set of output directories.    *)
(* Every fallible file-system call takes its outcome from a small set, so  *)
(* that the .expect()/.unwrap() panics and the `let _ =` / `if let Ok`     *)
(* paths of the code are all part of the behaviours.                       *)
(***************************************************************************)
EXTENDS Naturals, Sequences, FiniteSets, TLC

VARIABLES
    mode,          \* "once" (compile_all), "watch" (watch_mode), "links"
    stylesheet,    \* Config.stylesheet: NoPath (None) or a path
    input,         \* input tree: existing input file |-> modification time
    outFiles,      \* output tree: existing output file |-> content
    outDirs,       \* existing output directories (<<>> is the output root)
    pc,            \* position of the single control thread
    stack,         \* call stack of compile_all_recurse
    setupFailed,   \* history: remove_dir_all / create_dir_all returned Err
    afterFailure,  \* history: work performed after such an Err
    registry,      \* last_modified_times
    paths,         \* the Vec the polling tick still has to iterate
    ticks,         \* history: polling iterations started
    envOps,        \* history: file-system changes made from outside
    compiles,      \* history: compile_file calls made by the loop, per path
    raises,        \* history: mtime raises of a registered path
    checks,        \* history: Occupied-arm visits since the last raise
    sighted,       \* history: paths the loop body saw with metadata Ok
    primed,        \* history: keys of the registry when polling began
    lastCompile,   \* history: the last compile_file call of the loop
    doc,           \* link rewriting: the markdown source, as elements
    linkResult     \* link rewriting: the returned text

vars == <<mode, stylesheet, input, outFiles, outDirs, pc, stack, setupFailed,
          afterFailure, registry, paths, ticks, envOps, compiles, raises,
          checks, sighted, primed, lastCompile, doc, linkResult>>

compileVars == <<stack, setupFailed, afterFailure>>
watchVars == <<registry, paths, ticks, envOps, compiles, raises, checks,
               sighted, primed, lastCompile>>
linkVars == <<doc, linkResult>>

----------------------------------------------------------------------------
(* Bounds                                                                  *)

\* largest modification time a file can be given
MaxTime == 2
\* polling iterations the model follows
MaxTicks == 3
\* creations, touches and deletions made from outside while polling
MaxEnvOps == 1
\* stray files the old output directory may hold
MaxStrays == 1
\* elements of a markdown text given to the link rewriter
MaxElems == 2

\* SystemTime::UNIX_EPOCH
Epoch == 0

----------------------------------------------------------------------------
(* Paths.  A path is its root ("in" = Config.input_dir, "out" =            *)
(* Config.output_dir, "ext" = elsewhere), the directories below the root,  *)
(* the file stem and the extension ("" = none).                            *)

Path(r, d, s, e) == [root |-> r, dir |-> d, stem |-> s, ext |-> e]
NoPath == Path("none", <<>>, "", "")

Root == <<>>
SubDir == <<"sub">>

AMd == Path("in", Root, "a", "md")
AHtml == Path("in", Root, "a", "html")
StyleCss == Path("in", Root, "style", "css")
BMd == Path("in", SubDir, "b", "MD")
PicPng == Path("in", SubDir, "pic", "png")
ThemeCss == Path("ext", Root, "theme", "css")

Universe == {AMd, AHtml, StyleCss, BMd, PicPng}

\* OsStr::to_ascii_lowercase on the extensions in use
ToAsciiLowercase(e) ==
    CASE e = "MD" -> "md"
      [] e = "Md" -> "md"
      [] e = "mD" -> "md"
      [] OTHER -> e

\* path.extension().unwrap_or_default().to_ascii_lowercase() == "md"
IsMarkdownCaseSensitive(p) == p.ext = "md"
IsMarkdown(p) == ToAsciiLowercase(p.ext) = "md"

\* Path::strip_prefix(&config.input_dir): Err for a path outside the root
StripPrefixOk(p) == p.root = "in"
StripPrefix(p) == [dir |-> p.dir, stem |-> p.stem, ext |-> p.ext]

\* Path::with_extension
WithExtension(rel, e) == [rel EXCEPT !.ext = e]

\* config.output_dir.join(relative)
JoinOutput(rel) == Path("out", rel.dir, rel.stem, rel.ext)

\* compile_all_recurse: output_relative_path of a resource file
OutputRelativePath(p) == JoinOutput(StripPrefix(p))

\* compile_file: output_file of a compiled page
OutputFile(p) == JoinOutput(WithExtension(StripPrefix(p), "html"))

\* config.output_dir.join("style.css")
StylesheetTargetKeepsName == Path("out", Root, "theme", "css")
StylesheetTarget == Path("out", Root, "style", "css")

----------------------------------------------------------------------------
(* File contents                                                           *)

Bytes(p) == [kind |-> "bytes", src |-> p]
HtmlPage(p) == [kind |-> "html", src |-> p]
PartialPage(p) == [kind |-> "partial", src |-> p]
Stray == [kind |-> "stray", src |-> NoPath]

\* fs::read_to_string fails on a file that is not UTF-8 (an image)
IsUtf8(p) == p.ext # "png"

Put(f, k, v) == [x \in DOMAIN f \cup {k} |-> IF x = k THEN v ELSE f[x]]
Empty == [x \in {} |-> 0]

Prefixes(d) == {SubSeq(d, 1, n) : n \in 0..Len(d)}
IsPrefix(d, e) == Len(d) <= Len(e) /\ SubSeq(e, 1, Len(d)) = d

\* fs::create_dir_all
CreateDirAll(dirs, d) == dirs \cup Prefixes(d)

\* fs::copy(from, to): the copy result given the content read
FsCopy(files, to, content) == Put(files, to, content)

----------------------------------------------------------------------------
(* compile_file                                                            *)

Faults == {"none", "create", "read"}

\* compile_file(input_file, config): the output tree it leaves and whether it
\* returned (ok) or panicked.  fault is the outcome of the environment:
\* "create" fails File::create, "read" fails read_to_string.
CompileFile(p, fault, tree, files, dirs) ==
    LET outputFile == OutputFile(p) IN
    IF ~StripPrefixOk(p)
    THEN [out |-> files, ok |-> FALSE]
    ELSE IF fault = "create" \/ outputFile.dir \notin dirs
    THEN [out |-> files, ok |-> FALSE]
    ELSE IF fault = "read" \/ p \notin DOMAIN tree \/ ~IsUtf8(p)
    THEN [out |-> Put(files, outputFile, PartialPage(p)), ok |-> FALSE]
    ELSE [out |-> Put(files, outputFile, HtmlPage(p)), ok |-> TRUE]

----------------------------------------------------------------------------
(* copy_stylesheet_to_output_dir                                           *)

\* fs::metadata(stylesheet).is_ok()
StylesheetExists(tree) ==
    /\ stylesheet # NoPath
    /\ (stylesheet.root = "in" => stylesheet \in DOMAIN tree)

\* the outcome of copy_stylesheet_to_output_dir: the output tree and whether
\* it returned
CopyStylesheetToOutputDir(ioOk, tree, files, dirs) ==
    IF ~StylesheetExists(tree)
    THEN [out |-> files, ok |-> TRUE, copied |-> FALSE]
    ELSE IF ~ioOk \/ Root \notin dirs
    THEN [out |-> files, ok |-> FALSE, copied |-> FALSE]
    ELSE [out |-> FsCopy(files, StylesheetTarget, Bytes(stylesheet)),
          ok |-> TRUE, copied |-> TRUE]

----------------------------------------------------------------------------
(* compile_all                                                             *)

\* fs::read_dir(dir): the files and the subdirectories of dir
DirFiles(tree, d) == {p \in DOMAIN tree : p.dir = d}
DirSubdirs(tree, d) ==
    {SubSeq(p.dir, 1, Len(d) + 1) :
        p \in {q \in DOMAIN tree : Len(q.dir) > Len(d) /\ IsPrefix(d, q.dir)}}
Frame(tree, d) ==
    [dir |-> d, files |-> DirFiles(tree, d), dirs |-> DirSubdirs(tree, d)]

Top == stack[Len(stack)]
SetTop(f) == [stack EXCEPT ![Len(stack)] = f]
Pop == SubSeq(stack, 1, Len(stack) - 1)

Note(op) == IF setupFailed THEN afterFailure \cup {op} ELSE afterFailure

\* line 155: let _ = fs::remove_dir_all(&config.output_dir)
RemoveOutputDir ==
    /\ pc = "remove"
    /\ \E ok \in BOOLEAN :
        /\ outFiles' = IF ok THEN Empty ELSE outFiles
        /\ outDirs' = IF ok THEN {} ELSE outDirs
        /\ setupFailed' = (setupFailed \/ (~ok /\ Root \in outDirs))
    /\ pc' = "create"
    /\ UNCHANGED <<mode, stylesheet, input, stack, afterFailure>>
    /\ UNCHANGED <<watchVars, linkVars>>

\* line 156: let _ = fs::create_dir_all(&config.output_dir)
CreateOutputDir ==
    /\ pc = "create"
    /\ \E ok \in BOOLEAN :
        /\ outDirs' = IF ok THEN CreateDirAll(outDirs, Root) ELSE outDirs
        /\ setupFailed' = (setupFailed \/ ~ok)
    /\ pc' = "style"
    /\ UNCHANGED <<mode, stylesheet, input, outFiles, stack, afterFailure>>
    /\ UNCHANGED <<watchVars, linkVars>>

\* line 158: copy_stylesheet_to_output_dir(config)
CopyStylesheet ==
    /\ pc = "style"
    /\ \E ioOk \in BOOLEAN :
        LET r == CopyStylesheetToOutputDir(ioOk, input, outFiles, outDirs) IN
        /\ outFiles' = r.out
        /\ pc' = IF r.ok THEN "readroot" ELSE "panicked"
        /\ afterFailure' = IF r.copied THEN Note("style") ELSE afterFailure
    /\ UNCHANGED <<mode, stylesheet, input, outDirs, stack, setupFailed>>
    /\ UNCHANGED <<watchVars, linkVars>>

\* line 185 and 161: compile_all_recurse(&config.input_dir): read_dir().unwrap()
RecurseRoot ==
    /\ pc = "readroot"
    /\ \E ok \in BOOLEAN :
        /\ stack' = IF ok THEN <<Frame(input, Root)>> ELSE stack
        /\ pc' = IF ok THEN "recurse" ELSE "panicked"
    /\ UNCHANGED <<mode, stylesheet, input, outFiles, outDirs, setupFailed,
                   afterFailure>>
    /\ UNCHANGED <<watchVars, linkVars>>

\* lines 163-164: an entry that is a directory: recurse, read_dir().unwrap()
RecurseDir ==
    /\ pc = "recurse"
    /\ stack # <<>>
    /\ \E d \in Top.dirs, ok \in BOOLEAN :
        /\ stack' = IF ok
                    THEN Append(SetTop([Top EXCEPT !.dirs = @ \ {d}]),
                                Frame(input, d))
                    ELSE stack
        /\ pc' = IF ok THEN "recurse" ELSE "panicked"
    /\ UNCHANGED <<mode, stylesheet, input, outFiles, outDirs, setupFailed,
                   afterFailure>>
    /\ UNCHANGED <<watchVars, linkVars>>

\* lines 166-176: a markdown file: create_dir_all(parent), compile_file
RecurseMarkdown ==
    /\ pc = "recurse"
    /\ stack # <<>>
    /\ \E p \in Top.files, mkdirOk \in BOOLEAN, fault \in Faults :
        /\ IsMarkdown(p)
        /\ IF ~mkdirOk
           THEN /\ pc' = "panicked"
                /\ UNCHANGED <<outFiles, outDirs, stack, afterFailure>>
           ELSE LET dirs == CreateDirAll(outDirs, OutputRelativePath(p).dir)
                    r == CompileFile(p, fault, input, outFiles, dirs)
                IN  /\ outDirs' = dirs
                    /\ outFiles' = r.out
                    /\ pc' = IF r.ok THEN "recurse" ELSE "panicked"
                    /\ stack' = SetTop([Top EXCEPT !.files = @ \ {p}])
                    /\ afterFailure' = IF r.ok THEN Note("compile")
                                       ELSE afterFailure
    /\ UNCHANGED <<mode, stylesheet, input, setupFailed>>
    /\ UNCHANGED <<watchVars, linkVars>>

\* lines 166-179: any other file: create_dir_all(parent), fs::copy
RecurseResource ==
    /\ pc = "recurse"
    /\ stack # <<>>
    /\ \E p \in Top.files, mkdirOk \in BOOLEAN, copyOk \in BOOLEAN :
        /\ ~IsMarkdown(p)
        /\ IF ~mkdirOk
           THEN /\ pc' = "panicked"
                /\ UNCHANGED <<outFiles, outDirs, stack, afterFailure>>
           ELSE /\ outDirs' = CreateDirAll(outDirs, OutputRelativePath(p).dir)
                /\ outFiles' = IF copyOk
                               THEN FsCopy(outFiles, OutputRelativePath(p),
                                           Bytes(p))
                               ELSE outFiles
                /\ pc' = IF copyOk THEN "recurse" ELSE "panicked"
                /\ stack' = SetTop([Top EXCEPT !.files = @ \ {p}])
                /\ afterFailure' = IF copyOk THEN Note("copy")
                                   ELSE afterFailure
    /\ UNCHANGED <<mode, stylesheet, input, setupFailed>>
    /\ UNCHANGED <<watchVars, linkVars>>

\* line 182-183: the for loop of one directory is over: return to the caller;
\* the return of the outermost call ends compile_all
RecurseReturn ==
    /\ pc = "recurse"
    /\ stack # <<>>
    /\ Top.files = {}
    /\ Top.dirs = {}
    /\ stack' = Pop
    /\ pc' = IF Len(stack) > 1 THEN "recurse"
             ELSE IF mode = "watch" THEN "wstyle" ELSE "done"
    /\ UNCHANGED <<mode, stylesheet, input, outFiles, outDirs, setupFailed,
                   afterFailure>>
    /\ UNCHANGED <<watchVars, linkVars>>

CompileAll ==
    \/ RemoveOutputDir
    \/ CreateOutputDir
    \/ CopyStylesheet
    \/ RecurseRoot
    \/ RecurseDir
    \/ RecurseMarkdown
    \/ RecurseResource
    \/ RecurseReturn

----------------------------------------------------------------------------
(* Initial states                                                          *)

\* the output directory before the run: absent, or present with stray files
StrayPaths == {Path("out", Root, "a", "html"), Path("out", Root, "old", "txt"),
               Path("out", SubDir, "old", "txt")}
OldOutputs ==
    {[files |-> Empty, dirs |-> {}]} \cup
    {[files |-> [q \in S |-> Stray],
      dirs |-> UNION {Prefixes(q.dir) : q \in S} \cup {Root}] :
        S \in {T \in SUBSET StrayPaths : Cardinality(T) <= MaxStrays}}

\* Config.stylesheet: None, <input>/style.css, or a file outside the input
Stylesheets == {NoPath, StyleCss, ThemeCss}

InitWith(m, trees, olds, styles, docs) ==
    /\ mode = m
    /\ stylesheet \in styles
    /\ \E tree \in trees : input = [p \in tree |-> Epoch + 1]
    /\ \E old \in olds : outFiles = old.files /\ outDirs = old.dirs
    /\ pc = IF m = "links" THEN "links" ELSE "remove"
    /\ stack = <<>>
    /\ setupFailed = FALSE
    /\ afterFailure = {}
    /\ registry = Empty
    /\ paths = <<>>
    /\ ticks = 0
    /\ envOps = 0
    /\ compiles = [p \in Universe |-> 0]
    /\ raises = [p \in Universe |-> 0]
    /\ checks = [p \in Universe |-> 0]
    /\ sighted = {}
    /\ primed = {}
    /\ lastCompile = [path |-> NoPath, fault |-> "none", dirExisted |-> TRUE,
                      wrote |-> FALSE]
    /\ doc \in docs
    /\ linkResult = <<>>

InitCompile ==
    InitWith("once", SUBSET Universe, OldOutputs, Stylesheets, {<<>>})
NextCompile == CompileAll
SpecCompile == InitCompile /\ [][NextCompile]_vars

----------------------------------------------------------------------------
(* walk_dir                                                                *)

Perms(S) ==
    {s \in [1..Cardinality(S) -> S] :
        \A i, j \in 1..Cardinality(S) : i # j => s[i] # s[j]}

\* walk_dir(&config.input_dir) on success: the files in the order of a
\* depth-first walk (the files below one directory are contiguous), the order
\* of the entries of a directory being read_dir's
WalkDir(tree) ==
    {s \in Perms(DOMAIN tree) :
        \A i, k \in 1..Len(s) :
            \A d \in Prefixes(s[i].dir) \ {Root} :
                (i < k /\ IsPrefix(d, s[k].dir)) =>
                    \A j \in i..k : IsPrefix(d, s[j].dir)}

\* fs::metadata(&path).and_then(|data| data.modified()).unwrap_or(UNIX_EPOCH)
ModifiedOrEpoch(tree, p) == IF p \in DOMAIN tree THEN tree[p] ELSE Epoch

----------------------------------------------------------------------------
(* watch_mode                                                              *)

\* line 135: modified_time > *entry.get()
ModifiedSinceGe(t, recorded) == t >= recorded
ModifiedSince(t, recorded) == t > recorded

\* line 142: entry.insert(modified_time)
VacantInsert(reg, p, t) == Put(reg, p, t)

\* lines 134-140: Entry::Occupied leaves the entry as it is
OccupiedEntry(reg, p, t) == reg

Polling == pc \in {"walk", "loop"}

\* line 108: copy_stylesheet_to_output_dir(config), after compile_all
WatchCopyStylesheet ==
    /\ pc = "wstyle"
    /\ \E ioOk \in BOOLEAN :
        LET r == CopyStylesheetToOutputDir(ioOk, input, outFiles, outDirs) IN
        /\ outFiles' = r.out
        /\ pc' = IF r.ok THEN "prime" ELSE "panicked"
    /\ UNCHANGED <<mode, stylesheet, input, outDirs>>
    /\ UNCHANGED <<compileVars, watchVars, linkVars>>

\* lines 110-120: the registry is primed from one walk; a failed walk leaves
\* it empty
WatchPrime ==
    /\ pc = "prime"
    /\ \E ok \in BOOLEAN :
        registry' = IF ok
                    THEN [p \in DOMAIN input |-> ModifiedOrEpoch(input, p)]
                    ELSE Empty
    /\ primed' = DOMAIN registry'
    /\ pc' = "walk"
    /\ UNCHANGED <<mode, stylesheet, input, outFiles, outDirs>>
    /\ UNCHANGED <<paths, ticks, envOps, compiles, raises, checks, sighted,
                   lastCompile>>
    /\ UNCHANGED <<compileVars, linkVars>>

\* lines 122-128: the top of the loop: walk_dir; on Err `continue`
WatchWalk ==
    /\ pc = "walk"
    /\ ticks < MaxTicks
    /\ ticks' = ticks + 1
    /\ \E ok \in BOOLEAN :
        IF ok
        THEN /\ paths' \in WalkDir(input)
             /\ pc' = "loop"
        ELSE /\ paths' = <<>>
             /\ pc' = "walk"
    /\ UNCHANGED <<mode, stylesheet, input, outFiles, outDirs>>
    /\ UNCHANGED <<registry, envOps, compiles, raises, checks, sighted,
                   primed, lastCompile>>
    /\ UNCHANGED <<compileVars, linkVars>>

\* line 130: fs::metadata(&path) is Err: the path is skipped
LoopMetadataErr ==
    /\ pc = "loop"
    /\ paths # <<>>
    /\ Head(paths) \notin DOMAIN input
    /\ paths' = Tail(paths)
    /\ UNCHANGED <<mode, stylesheet, input, outFiles, outDirs, pc>>
    /\ UNCHANGED <<registry, ticks, envOps, compiles, raises, checks, sighted,
                   primed, lastCompile>>
    /\ UNCHANGED <<compileVars, linkVars>>

\* the call compile_file(path.clone(), config) of lines 138 and 145
LoopCompile(p, fault) ==
    LET r == CompileFile(p, fault, input, outFiles, outDirs) IN
    /\ outFiles' = r.out
    /\ pc' = IF r.ok THEN "loop" ELSE "panicked"
    /\ compiles' = [compiles EXCEPT ![p] = @ + 1]
    /\ lastCompile' = [path |-> p, fault |-> fault,
                       dirExisted |-> OutputFile(p).dir \in outDirs,
                       wrote |-> r.ok]

\* lines 134-140: the path is in the registry
LoopOccupied ==
    /\ pc = "loop"
    /\ paths # <<>>
    /\ LET p == Head(paths) IN
        /\ p \in DOMAIN input
        /\ p \in DOMAIN registry
        /\ paths' = Tail(paths)
        /\ sighted' = sighted \cup {p}
        /\ checks' = [checks EXCEPT ![p] = @ + 1]
        /\ registry' = OccupiedEntry(registry, p, input[p])
        /\ IF ModifiedSince(input[p], registry[p])
           THEN \E fault \in Faults : LoopCompile(p, fault)
           ELSE UNCHANGED <<outFiles, pc, compiles, lastCompile>>
    /\ UNCHANGED <<mode, stylesheet, input, outDirs>>
    /\ UNCHANGED <<ticks, envOps, raises, primed>>
    /\ UNCHANGED <<compileVars, linkVars>>

\* lines 141-146: the path is not in the registry
LoopVacant ==
    /\ pc = "loop"
    /\ paths # <<>>
    /\ LET p == Head(paths) IN
        /\ p \in DOMAIN input
        /\ p \notin DOMAIN registry
        /\ paths' = Tail(paths)
        /\ sighted' = sighted \cup {p}
        /\ registry' = VacantInsert(registry, p, input[p])
        /\ \E fault \in Faults : LoopCompile(p, fault)
    /\ UNCHANGED <<mode, stylesheet, input, outDirs>>
    /\ UNCHANGED <<ticks, envOps, raises, checks, primed>>
    /\ UNCHANGED <<compileVars, linkVars>>

\* line 150: the for loop is over: sleep, then the next iteration
WatchSleep ==
    /\ pc = "loop"
    /\ paths = <<>>
    /\ pc' = "walk"
    /\ UNCHANGED <<mode, stylesheet, input, outFiles, outDirs>>
    /\ UNCHANGED <<compileVars, watchVars, linkVars>>

----------------------------------------------------------------------------
(* The input tree changes from outside while the loop polls                *)

\* files that appear while polling
NewFiles == {BMd, StyleCss}

EnvUnchanged ==
    /\ UNCHANGED <<mode, stylesheet, outFiles, outDirs, pc>>
    /\ UNCHANGED <<registry, paths, ticks, compiles, sighted, primed,
                   lastCompile>>
    /\ UNCHANGED <<compileVars, linkVars>>

\* a file the registry does not know is created
CreateFile ==
    /\ Polling
    /\ envOps < MaxEnvOps
    /\ \E p \in NewFiles, t \in Epoch..MaxTime :
        /\ p \notin DOMAIN input
        /\ p \notin DOMAIN registry
        /\ input' = Put(input, p, t)
    /\ envOps' = envOps + 1
    /\ UNCHANGED <<raises, checks>>
    /\ EnvUnchanged

\* the modification time of a file is raised
TouchFile ==
    /\ Polling
    /\ envOps < MaxEnvOps
    /\ \E p \in DOMAIN input :
        \E t \in (input[p] + 1)..MaxTime :
            /\ input' = [input EXCEPT ![p] = t]
            /\ raises' = IF p \in DOMAIN registry
                         THEN [raises EXCEPT ![p] = @ + 1] ELSE raises
            /\ checks' = IF p \in DOMAIN registry
                         THEN [checks EXCEPT ![p] = 0] ELSE checks
    /\ envOps' = envOps + 1
    /\ EnvUnchanged

\* a file is deleted
DeleteFile ==
    /\ Polling
    /\ envOps < MaxEnvOps
    /\ \E p \in DOMAIN input :
        input' = [q \in DOMAIN input \ {p} |-> input[q]]
    /\ envOps' = envOps + 1
    /\ UNCHANGED <<raises, checks>>
    /\ EnvUnchanged

WatchTrees == {{AMd}, {AMd, PicPng}}
WatchStylesheets == {NoPath, ThemeCss}
WatchOutputs == {old \in OldOutputs : old.files = Empty}

InitWatch ==
    InitWith("watch", WatchTrees, WatchOutputs, WatchStylesheets, {<<>>})
NextWatch ==
    \/ CompileAll
    \/ WatchCopyStylesheet
    \/ WatchPrime
    \/ WatchWalk
    \/ LoopMetadataErr
    \/ LoopOccupied
    \/ LoopVacant
    \/ WatchSleep
    \/ CreateFile
    \/ TouchFile
    \/ DeleteFile
SpecWatch == InitWatch /\ [][NextWatch]_vars

----------------------------------------------------------------------------
(* replace_md_link_extensions_with_html.  A text is a sequence of          *)
(* characters (one-character strings).                                     *)

RECURSIVE Concat(_)
Concat(ss) == IF ss = <<>> THEN <<>> ELSE Head(ss) \o Concat(Tail(ss))

Max(S) == CHOOSE x \in S : \A y \in S : y <= x
Min(S) == CHOOSE x \in S : \A y \in S : x <= y

\* u8::to_ascii_lowercase on the letters in use
LowerChar(c) ==
    CASE c = "M" -> "m"
      [] c = "D" -> "d"
      [] OTHER -> c
LowerText(t) == [i \in 1..Len(t) |-> LowerChar(t[i])]

\* Path::is_relative (Unix): the path does not start at the root directory
IsRelative(u) == ~(Len(u) >= 1 /\ u[1] = "/")

\* Path::file_name: the last component, trailing separators dropped, as the
\* indices <<first, last>> of u (<<1, 0>>: none)
FileNameSpan(u) ==
    LET solid == {i \in 1..Len(u) : u[i] # "/"}
        last == IF solid = {} THEN 0 ELSE Max(solid)
        seps == {i \in 1..last : u[i] = "/"}
        first == IF seps = {} THEN 1 ELSE Max(seps) + 1
    IN  IF last = 0 \/ SubSeq(u, first, last) = <<".", ".">>
        THEN <<1, 0>> ELSE <<first, last>>

\* the index of the dot that splits stem and extension (0: no extension):
\* the last dot of the file name, unless it is its first character
ExtensionDot(u) ==
    LET span == FileNameSpan(u)
        dots == {i \in span[1]..span[2] : u[i] = "."}
    IN  IF dots = {} \/ Max(dots) = span[1] THEN 0 ELSE Max(dots)

\* Path::extension (<<>> with HasExtension false: None)
HasExtension(u) == ExtensionDot(u) # 0
Extension(u) == SubSeq(u, ExtensionDot(u) + 1, FileNameSpan(u)[2])

\* Path::with_extension: the path is cut after the file stem and the new
\* extension appended
PathWithExtension(u, e) ==
    LET span == FileNameSpan(u)
        stemEnd == IF HasExtension(u) THEN ExtensionDot(u) - 1 ELSE span[2]
    IN  IF span[2] = 0 THEN u
        ELSE SubSeq(u, 1, stemEnd) \o <<".">> \o e

HtmlExt == <<"h", "t", "m", "l">>
MdExt == <<"m", "d">>

\* lines 263-268: the url the replacement closure writes back
RewriteUrl(u) ==
    IF IsRelative(u) /\ HasExtension(u) /\ LowerText(Extension(u)) = MdExt
    THEN PathWithExtension(u, HtmlExt)
    ELSE u

\* line 258: the leftmost match of \[([^)]*)\]\(([^)]*)\) at or after from.
\* A match that starts at i ends at the first ")" after i, and the greedy
\* first group takes the last "](" before it.
MatchAt(s, i) ==
    LET closes == {k \in (i + 1)..Len(s) : s[k] = ")"}
        k == IF closes = {} THEN 0 ELSE Min(closes)
        mids == {j \in (i + 1)..(k - 2) : s[j] = "]" /\ s[j + 1] = "("}
    IN  IF s[i] # "[" \/ k = 0 \/ mids = {}
        THEN [found |-> FALSE, start |-> 0, mid |-> 0, end |-> 0]
        ELSE [found |-> TRUE, start |-> i, mid |-> Max(mids), end |-> k]

FindMatch(s, from) ==
    LET starts == {i \in from..Len(s) : MatchAt(s, i).found}
    IN  IF starts = {}
        THEN [found |-> FALSE, start |-> 0, mid |-> 0, end |-> 0]
        ELSE MatchAt(s, Min(starts))

\* lines 269-273: format!("[{}]({})", link_text, path)
Replacement(s, m) ==
    <<"[">> \o SubSeq(s, m.start + 1, m.mid - 1) \o <<"]", "(">>
        \o RewriteUrl(SubSeq(s, m.mid + 2, m.end - 1)) \o <<")">>

\* Regex::replace_all: the matches are replaced from left to right, the text
\* between them is kept
RECURSIVE ReplaceAllFrom(_, _)
ReplaceAllFrom(s, from) ==
    LET m == FindMatch(s, from) IN
    IF ~m.found THEN SubSeq(s, from, Len(s))
    ELSE SubSeq(s, from, m.start - 1) \o Replacement(s, m)
            \o ReplaceAllFrom(s, m.end + 1)

\* lines 257-276
ReplaceMdLinkExtensionsWithHtml(markdown) == ReplaceAllFrom(markdown, 1)

(* The markdown texts given to the function: sequences of link elements.   *)

UrlPrefixes == {"relative", "subdir", "absolute", "external"}
UrlExts == {"md", "Md", "png", "none"}
Urls == [prefix : UrlPrefixes, ext : UrlExts]

PrefixText(px) ==
    CASE px = "relative" -> <<>>
      [] px = "subdir" -> <<"d", "/">>
      [] px = "absolute" -> <<"/", "d", "/">>
      [] px = "external" -> <<"h", ":", "/", "/", "e", ".", "c", "/">>
ExtText(e) ==
    CASE e = "md" -> <<".", "m", "d">>
      [] e = "Md" -> <<".", "M", "d">>
      [] e = "html" -> <<".", "h", "t", "m", "l">>
      [] e = "png" -> <<".", "p", "n", "g">>
      [] e = "none" -> <<>>
UrlText(u) == PrefixText(u.prefix) \o <<"n">> \o ExtText(u.ext)

Elements ==
    [kind : {"inline", "image", "autolink"}, url : Urls]
    \cup [kind : {"reference", "words"}, url : {[prefix |-> "relative", ext |-> "md"]}]

ElementText(e) ==
    CASE e.kind = "inline" -> <<"[", "t", "]", "(">> \o UrlText(e.url) \o <<")">>
      [] e.kind = "image" -> <<"!", "[", "t", "]", "(">> \o UrlText(e.url) \o <<")">>
      [] e.kind = "autolink" -> <<"<">> \o UrlText(e.url) \o <<">">>
      [] e.kind = "reference" -> <<"[", "t", "]", "[", "r", "]">>
      [] e.kind = "words" -> <<"w", " ">> \o UrlText(e.url) \o <<" ">>

DocText(d) == Concat([i \in 1..Len(d) |-> ElementText(d[i])])

Docs == UNION {[1..n -> Elements] : n \in 1..MaxElems}

\* compile_file, line 229: the function is applied to the markdown source
RewriteLinks ==
    /\ pc = "links"
    /\ linkResult' = ReplaceMdLinkExtensionsWithHtml(DocText(doc))
    /\ pc' = "linksdone"
    /\ UNCHANGED <<mode, stylesheet, input, outFiles, outDirs, doc>>
    /\ UNCHANGED <<compileVars, watchVars>>

InitLinks == InitWith("links", {{}}, {[files |-> Empty, dirs |-> {}]},
                      {NoPath}, Docs)
NextLinks == RewriteLinks
SpecLinks == InitLinks /\ [][NextLinks]_vars

----------------------------------------------------------------------------
(* The claims' own vocabulary, stated apart from the operators above       *)

\* a markdown file: extension md in any letter case
MdFile(p) == p.ext \in {"md", "MD", "Md", "mD"}

\* the mirrored output path: same relative path, .html for a markdown file
Mirrored(p) ==
    [root |-> "out", dir |-> p.dir, stem |-> p.stem,
     ext |-> IF MdFile(p) THEN "html" ELSE p.ext]

\* what the mirrored path of p has to hold
OwnResult(p) ==
    IF MdFile(p) THEN [kind |-> "html", src |-> p]
    ELSE [kind |-> "bytes", src |-> p]

Holds(q, content) == q \in DOMAIN outFiles /\ outFiles[q] = content

StyleAtOutputRoot == [root |-> "out", dir |-> <<>>, stem |-> "style", ext |-> "css"]

\* compile_all has returned
CompileAllFinished == pc \in {"done", "wstyle"}

\* the polling loop has started an iteration
PollingEntered == ticks >= 1

----------------------------------------------------------------------------
(* Full compile                                                            *)

\* C3: after a full compile has finished, no file that was in the output
\* directory before the compile is left in the output tree.
C3_NoStrayAfterCompile ==
    CompileAllFinished => \A q \in DOMAIN outFiles : outFiles[q] # Stray

\* C4 as stated: after a full compile has finished, every input file has its
\* own result at its mirrored output path.
C4_EveryInputHasOwnResult ==
    CompileAllFinished =>
        \A p \in DOMAIN input : Holds(Mirrored(p), OwnResult(p))

\* C4 as amended: after a full compile has finished, every input file whose
\* mirrored output path is the mirrored path of no other input file has its
\* own result there, and a mirrored path shared by several input files holds
\* the result of one of them.
C4_OwnResultUnlessShared ==
    CompileAllFinished =>
        \A p \in DOMAIN input :
            LET sharing == {q \in DOMAIN input : Mirrored(q) = Mirrored(p)} IN
            /\ Mirrored(p) \in DOMAIN outFiles
            /\ outFiles[Mirrored(p)] \in {OwnResult(q) : q \in sharing}
            /\ (sharing = {p} => Holds(Mirrored(p), OwnResult(p)))

\* a full compile of a tree with markdown in two letter cases and a binary
\* resource, none sharing an output path, has finished
C4_Witness ==
    /\ pc = "done"
    /\ {AMd, BMd, PicPng} \subseteq DOMAIN input
    /\ AHtml \notin DOMAIN input
    /\ Holds(Mirrored(BMd), OwnResult(BMd))
    /\ Holds(Mirrored(PicPng), OwnResult(PicPng))

C9_NothingAfterSetupFailure == afterFailure = {}

----------------------------------------------------------------------------
(* Watch mode                                                              *)

\* C1: a registered file whose modification time was raised once is
\* compiled by the loop once, at the first visit after the raise, and at no
\* later visit.
C1_OneCompilePerRaise ==
    \A f \in Universe :
        (f \in DOMAIN registry /\ raises[f] = 1) =>
            compiles[f] = (IF f \in primed THEN 0 ELSE 1)
                          + (IF checks[f] >= 1 THEN 1 ELSE 0)

\* C2: a markdown file that was not in the registry when polling began is
\* inserted and compiled once at the first visit that reads its metadata,
\* and not again while its modification time is not raised.
C2_NewFileCompiledOnce ==
    \A g \in Universe :
        (MdFile(g) /\ g \notin primed /\ raises[g] = 0) =>
            /\ g \in sighted => g \in DOMAIN registry
            /\ compiles[g] = (IF g \in DOMAIN registry THEN 1 ELSE 0)

\* a markdown file created while polling was compiled at its first visit,
\* its page written, and a later visit left it alone
C2_Witness ==
    /\ BMd \in DOMAIN registry
    /\ BMd \notin primed
    /\ primed # {}
    /\ raises[BMd] = 0
    /\ compiles[BMd] = 1
    /\ checks[BMd] >= 1
    /\ Holds(Mirrored(BMd), OwnResult(BMd))

\* C7: a single-file compile of a markdown file that meets no read or write
\* fault of the environment writes its page, whether or not the directory of
\* the output path existed.
C7_CompileFileCreatesDirectory ==
    (lastCompile.path # NoPath /\ MdFile(lastCompile.path)
        /\ lastCompile.fault = "none") => lastCompile.wrote

\* C8: once polling, the loop is never ended by a failing walk or compile.
C8_LoopNeverTerminates == PollingEntered => pc # "panicked"

\* C10: every single-file compile the loop triggers is for a markdown file.
C10_OnlyMarkdownCompiled ==
    \A p \in Universe : compiles[p] > 0 => MdFile(p)

----------------------------------------------------------------------------
(* Link rewriting                                                          *)

\* what the claim asks of one element: only an inline link that is not an
\* image, whose url is a relative path (not absolute, not external) with a
\* case-insensitive md extension, gets the extension html
ClaimedElement(e) ==
    IF /\ e.kind = "inline"
       /\ e.url.prefix \in {"relative", "subdir"}
       /\ e.url.ext \in {"md", "Md"}
    THEN [e EXCEPT !.url.ext = "html"]
    ELSE e

ClaimedText(d) == DocText([i \in 1..Len(d) |-> ClaimedElement(d[i])])

\* C6: link rewriting changes exactly the inline links whose url is a
\* relative path with a case-insensitive md extension, to html, and leaves
\* external urls, images, reference links and autolinks as they are.
C6_RewritesExactlyRelativeMdLinks ==
    pc = "linksdone" => linkResult = ClaimedText(doc)

====
